---- MODULE Spec2Model ----
(***************************************************************************)
(* homebridge-ifeel-shutters: the platform (IFeelPlatform), the hub client *)
(* (IFeelAPI) and one shutter accessory (IFeelShutter) in its two timer    *)
(* variants:                                                               *)
(*   "polling"  - src/unnamed/part_000         (setInterval polling)       *)
(*   "deferred" - src/src/platformAccessory.ts (one setTimeout re-check)   *)
(* Node's event loop runs one callback at a time, so every action below is *)
(* one callback run to completion.  A hub HTTP call is a promise in        *)
(* flight; it is settled by a later action, resolved or rejected.          *)
(***************************************************************************)
EXTENDS Integers, FiniteSets

\* ---------------------------------------------------------------- bounds
\* setInterval / setTimeout calls modelled (one per handleTargetPositionSet)
MaxTimers == 2
\* hub requests of the shutter (position reads and commands) in flight at once
MaxInflight == 2
\* authenticate() promises of the re-authentication interval in flight at once
MaxAuths == 1
\* the top of the percentage range the position derivation is tabulated over
MaxPercent == 100

\* ------------------------------------------------------ program constants
DECREASING == 0
INCREASING == 1
STOPPED == 2
\* the value of a characteristic this code has not written yet
UNSET == STOPPED + 1

\* this.maxPollingTime = 1000 * 60
maxPollingTime == 1000 * 60

\* positions the hub reports and HomeKit requests
Positions == {30, 70}
\* config['pollingInterval'] values: 0 stands for an absent entry
ConfigPollingIntervals == {0, 20}
\* session cookies the hub hands out
Cookies == {"c1", "c2"}

Variants == {"polling", "deferred"}
TimerIds == 1..MaxTimers
\* the three accessory sources that derive a motion state
DerivingVariants == Variants \cup {"simple"}
\* the percentage range of the HomeKit position characteristics
Percent == 0..MaxPercent
\* response.data['currStatus'] is handed on as it arrives: the readings of
\* Positions and one the hub may send that is no percentage
HubReadings == Positions \cup {MaxPercent + 1}
\* a falsy timer handle (null or undefined)
NULL == 0
\* who issued a getShutterPosition that is not issued by a timer callback
ReadOrigins == {"ctor", "curGet", "tgtGet", "stateGet"}
AuthOrigins == {"launch", "interval"}

VARIABLES
    variant,                      \* which platformAccessory is built in
    pollingInterval,              \* IFeelPlatform.pollingInterval
    launched,                     \* didFinishLaunching has fired
    authenticationTimer,          \* the re-authentication setInterval is live
    sessionCookie,                \* IFeelAPI.sessionCookie
    auths,                        \* authenticate() promises in flight, per origin
    lists,                        \* getShuttersData() promises in flight
    constructed,                  \* new IFeelShutter(...) has run
    currentPosition,              \* state.currentPosition
    targetPosition,               \* state.targetPosition
    updateTargetInterval,         \* polling: the setInterval handle
    intervalDurationSum,          \* polling: accumulated polling time
    updateTargetPositionTimeout,  \* deferred: the setTimeout handle
    timers,                       \* timers live in the Node runtime
    nextTimerId,                  \* id of the next timer the runtime creates
    reads,                        \* getShutterPosition promises in flight, per origin
    timerReads,                   \* the same, issued by the callback of timer t
    cmds,                         \* postShutterAction promises in flight
    positionState,                \* PositionState characteristic as last pushed
    capLogs,                      \* "max polling time was reached" lines since the last set
    targetSeen,                   \* a hub read has reported targetPosition since the last set
    requested,                    \* value of the most recent handleTargetPositionSet (0: none yet)
    event,                        \* what the last callback run was
    callback                      \* the HomeKit callback that run invoked, if any

vars == <<variant, pollingInterval, launched, authenticationTimer, sessionCookie, auths, lists,
          constructed, currentPosition, targetPosition, updateTargetInterval,
          intervalDurationSum, updateTargetPositionTimeout, timers, nextTimerId,
          reads, timerReads, cmds, positionState, capLogs, targetSeen, requested,
          event, callback>>

platformVars == <<variant, pollingInterval, launched, authenticationTimer, sessionCookie,
                  auths, lists>>
shutterVars == <<currentPosition, targetPosition, updateTargetInterval,
                 intervalDurationSum, updateTargetPositionTimeout, timers,
                 nextTimerId, timerReads, cmds, positionState, capLogs, targetSeen,
                 requested>>

\* ------------------------------------------------------------- helpers
NoCallback == [op |-> "none", err |-> FALSE, value |-> 0]
Callback(op, value) == [op |-> op, err |-> FALSE, value |-> value]
Event(op, of, timer, value) == [op |-> op, of |-> of, timer |-> timer, value |-> value]

RECURSIVE SumOver(_, _)
SumOver(f, S) ==
    IF S = {} THEN 0
    ELSE LET x == CHOOSE y \in S : TRUE IN f[x] + SumOver(f, S \ {x})

\* hub requests of the shutter in flight
Inflight == SumOver(reads, ReadOrigins) + SumOver(timerReads, TimerIds) + cmds

\* this.pollingInterval = config['pollingInterval'] ? parseInt(config['pollingInterval']) * 1000 : 2500
PollingIntervalOf(cfg) == IF cfg # 0 THEN cfg * 1000 ELSE 2500

\* mutant: the two comparisons of the derivation exchanged
calculateCurrentPositionState_Swapped(cur, tgt) ==
    IF cur < tgt THEN DECREASING
    ELSE IF cur > tgt THEN INCREASING
    ELSE STOPPED

\* calculateCurrentPositionState() on the given state
calculateCurrentPositionState(cur, tgt) ==
    IF cur > tgt THEN DECREASING
    ELSE IF cur < tgt THEN INCREASING
    ELSE STOPPED

\* calculateCurrentPositionState() of the deferred variant
D_calculateCurrentPositionState(cur, tgt) ==
    IF cur > tgt THEN DECREASING
    ELSE IF cur < tgt THEN INCREASING
    ELSE STOPPED

\* the derivation written inline in handlePositionStateGet of the simple
\* variant, with the numbers in place of the PositionState names
S_positionState(cur, tgt) ==
    IF cur > tgt THEN 0
    ELSE IF cur < tgt THEN 1
    ELSE 2

\* the derivation the running variant uses
PositionStateOf(v, cur, tgt) ==
    CASE v = "polling"  -> calculateCurrentPositionState(cur, tgt)
      [] v = "deferred" -> D_calculateCurrentPositionState(cur, tgt)
      [] v = "simple"   -> S_positionState(cur, tgt)

\* A promise of `of` rejects.  No call site passes a rejection handler: every
\* hub call is either bare or followed by .then(onFulfilled) alone, so the
\* rejection reaches nothing but the runtime's unhandledRejection event.
Rejected(of, timer) == Event("unhandledRejection", of, timer, 0)

\* mutant: the handle is dropped without clearInterval
clearIntervalSafe_timers_NoClear(handle, live) == live

\* clearIntervalSafe(): the runtime's timers afterwards
clearIntervalSafe_timers(handle, live) ==
    IF handle # NULL THEN live \ {handle} ELSE live

\* clearIntervalSafe(): this.updateTargetInterval afterwards
clearIntervalSafe_handle(handle) ==
    IF handle # NULL THEN NULL ELSE handle

\* ------------------------------------------------------------------ Init
\* The platform before Homebridge fires didFinishLaunching: no shutter yet.
PlatformInit ==
    /\ variant \in Variants
    /\ \E cfg \in ConfigPollingIntervals : pollingInterval = PollingIntervalOf(cfg)
    /\ launched = FALSE
    /\ authenticationTimer = FALSE
    /\ sessionCookie = ""
    /\ auths = [o \in AuthOrigins |-> 0]
    /\ lists = 0
    /\ constructed = FALSE
    /\ currentPosition = 0
    /\ targetPosition = 0
    /\ updateTargetInterval = NULL
    /\ intervalDurationSum = 0
    /\ updateTargetPositionTimeout = NULL
    /\ timers = {}
    /\ nextTimerId = 1
    /\ reads = [o \in ReadOrigins |-> 0]
    /\ timerReads = [t \in TimerIds |-> 0]
    /\ cmds = 0
    /\ positionState = UNSET
    /\ capLogs = 0
    /\ targetSeen = FALSE
    /\ requested = 0
    /\ event = Event("init", "", 0, 0)
    /\ callback = NoCallback

\* The shutter right after its constructor has run: fields at their
\* initialisers, handlers registered, the seed getShutterPosition in flight.
\* The platform has launched, authenticated and listed the devices by then.
Init ==
    /\ variant \in Variants
    /\ \E cfg \in ConfigPollingIntervals : pollingInterval = PollingIntervalOf(cfg)
    /\ launched = TRUE
    /\ authenticationTimer = TRUE
    /\ sessionCookie = "c1"
    /\ auths = [o \in AuthOrigins |-> 0]
    /\ lists = 0
    /\ constructed = TRUE
    /\ currentPosition = 0
    /\ targetPosition = 0
    /\ updateTargetInterval = NULL
    /\ intervalDurationSum = 0
    /\ updateTargetPositionTimeout = NULL
    /\ timers = {}
    /\ nextTimerId = 1
    /\ reads = [o \in ReadOrigins |-> IF o = "ctor" THEN 1 ELSE 0]
    /\ timerReads = [t \in TimerIds |-> 0]
    /\ cmds = 0
    /\ positionState = UNSET
    /\ capLogs = 0
    /\ targetSeen = FALSE
    /\ requested = 0
    /\ event = Event("constructor", "", 0, 0)
    /\ callback = NoCallback

\* ------------------------------------------------------------- platform
\* api.on('didFinishLaunching', ...): authenticate().then(discoverDevices) and
\* the re-authentication setInterval
didFinishLaunching ==
    /\ ~launched
    /\ launched' = TRUE
    /\ authenticationTimer' = TRUE
    /\ auths' = [auths EXCEPT !["launch"] = 1]
    /\ event' = Event("didFinishLaunching", "", 0, 0)
    /\ callback' = NoCallback
    /\ UNCHANGED <<variant, pollingInterval, sessionCookie, lists, constructed, reads>>
    /\ UNCHANGED shutterVars

\* the re-authentication interval fires: this.iFeelApi.authenticate()
authenticationIntervalTick ==
    /\ authenticationTimer
    /\ auths["interval"] < MaxAuths
    /\ auths' = [auths EXCEPT !["interval"] = @ + 1]
    /\ UNCHANGED authenticationTimer
    /\ event' = Event("authenticationInterval", "", 0, 0)
    /\ callback' = NoCallback
    /\ UNCHANGED <<variant, pollingInterval, launched, sessionCookie, lists, constructed, reads>>
    /\ UNCHANGED shutterVars

\* mutant: every successful authenticate goes on to discover the devices
authenticateResolved_lists_Every(o) == lists + 1

\* the getShuttersData() calls in flight after authenticate() of origin o
\* resolves: only the call made at launch carries .then(discoverDevices)
authenticateResolved_lists(o) == IF o = "launch" THEN lists + 1 ELSE lists

\* authenticate() resolves: the cookie is stored; the launch call goes on to
\* discoverDevices(), which calls getShuttersData()
authenticateResolved(o, cookie) ==
    /\ auths[o] > 0
    /\ auths' = [auths EXCEPT ![o] = @ - 1]
    /\ sessionCookie' = cookie
    /\ lists' = authenticateResolved_lists(o)
    /\ UNCHANGED authenticationTimer
    /\ event' = Event("resolved", "authenticate", 0, 0)
    /\ callback' = NoCallback
    /\ UNCHANGED <<variant, pollingInterval, launched, constructed, reads>>
    /\ UNCHANGED shutterVars

\* mutant: a failed attempt drops the stored cookie
authenticateRejected_sessionCookie_Dropped == ""

\* the cookie field after authenticate() rejects: the await throws before
\* the assignment, so the field keeps what it held
authenticateRejected_sessionCookie == sessionCookie

\* mutant: a failed attempt stops the re-authentication interval
authenticateRejected_timer_Cleared == FALSE

\* the re-authentication interval after authenticate() rejects: nothing
\* holds its handle, so nothing can clear it
authenticateRejected_timer == authenticationTimer

\* authenticate() rejects: the await throws before the cookie is stored
authenticateRejected(o) ==
    /\ auths[o] > 0
    /\ auths' = [auths EXCEPT ![o] = @ - 1]
    /\ sessionCookie' = authenticateRejected_sessionCookie
    /\ authenticationTimer' = authenticateRejected_timer
    /\ event' = Rejected("authenticate", 0)
    /\ callback' = NoCallback
    /\ UNCHANGED <<variant, pollingInterval, launched, lists, constructed, reads>>
    /\ UNCHANGED shutterVars

\* getShuttersData() resolves inside discoverDevices(): one IFeelShutter is
\* constructed per unit of type 'shutter'.  The model follows one shutter;
\* its constructor ends by issuing the seed getShutterPosition.
discoverDevicesResolved(hasShutter) ==
    /\ lists > 0
    /\ lists' = lists - 1
    /\ constructed' = hasShutter
    /\ reads' = IF hasShutter THEN [reads EXCEPT !["ctor"] = @ + 1] ELSE reads
    /\ UNCHANGED authenticationTimer
    /\ event' = Event("resolved", "getShuttersData", 0, 0)
    /\ callback' = NoCallback
    /\ UNCHANGED <<variant, pollingInterval, launched, sessionCookie, auths>>
    /\ UNCHANGED shutterVars

discoverDevicesRejected ==
    /\ lists > 0
    /\ lists' = lists - 1
    /\ UNCHANGED authenticationTimer
    /\ event' = Rejected("getShuttersData", 0)
    /\ callback' = NoCallback
    /\ UNCHANGED <<variant, pollingInterval, launched, sessionCookie, auths, constructed, reads>>
    /\ UNCHANGED shutterVars

\* ------------------------------------------- shutter: the three read handlers
\* handleCurrentPositionGet(callback): issues getShutterPosition
handleCurrentPositionGet ==
    /\ constructed
    /\ Inflight < MaxInflight
    /\ reads' = [reads EXCEPT !["curGet"] = @ + 1]
    /\ event' = Event("handleCurrentPositionGet", "", 0, 0)
    /\ callback' = NoCallback
    /\ UNCHANGED <<platformVars, constructed>>
    /\ UNCHANGED shutterVars

\* mutant: the getters resynchronise the target even while a session polls
P_shouldSyncTarget_Always(handle, position, tgt) == position # tgt

\* if (!this.updateTargetInterval && currentPosition !== targetPosition),
\* the test both position getters of the polling variant make after the read
P_shouldSyncTarget(handle, position, tgt) == handle = NULL /\ position # tgt

\* polling variant, the .then of handleCurrentPositionGet
P_currentPositionGetResolved(position) ==
    /\ variant = "polling"
    /\ reads["curGet"] > 0
    /\ reads' = [reads EXCEPT !["curGet"] = @ - 1]
    /\ currentPosition' = position
    /\ IF P_shouldSyncTarget(updateTargetInterval, position, targetPosition)
       THEN /\ targetPosition' = position
            /\ positionState' = calculateCurrentPositionState(position, position)
       ELSE UNCHANGED <<targetPosition, positionState>>
    /\ targetSeen' = (targetSeen \/ position = targetPosition')
    /\ UNCHANGED requested
    /\ event' = Event("resolved", "curGet", 0, position)
    /\ callback' = Callback("handleCurrentPositionGet", position)
    /\ UNCHANGED <<platformVars, constructed, updateTargetInterval, intervalDurationSum,
                   updateTargetPositionTimeout, timers, nextTimerId, timerReads, cmds, capLogs>>

\* deferred variant, the .then of handleCurrentPositionGet
D_currentPositionGetResolved(position) ==
    /\ variant = "deferred"
    /\ reads["curGet"] > 0
    /\ reads' = [reads EXCEPT !["curGet"] = @ - 1]
    /\ currentPosition' = position
    /\ UNCHANGED targetSeen
    /\ UNCHANGED requested
    /\ event' = Event("resolved", "curGet", 0, position)
    /\ callback' = Callback("handleCurrentPositionGet", position)
    /\ UNCHANGED <<platformVars, constructed, targetPosition, updateTargetInterval,
                   intervalDurationSum, updateTargetPositionTimeout, timers, nextTimerId,
                   timerReads, cmds, positionState, capLogs>>

\* polling variant, handleTargetPositionGet(callback): issues getShutterPosition
P_handleTargetPositionGet ==
    /\ constructed
    /\ variant = "polling"
    /\ Inflight < MaxInflight
    /\ reads' = [reads EXCEPT !["tgtGet"] = @ + 1]
    /\ event' = Event("handleTargetPositionGet", "", 0, 0)
    /\ callback' = NoCallback
    /\ UNCHANGED <<platformVars, constructed>>
    /\ UNCHANGED shutterVars

\* polling variant, the .then of handleTargetPositionGet
P_targetPositionGetResolved(position) ==
    /\ variant = "polling"
    /\ reads["tgtGet"] > 0
    /\ reads' = [reads EXCEPT !["tgtGet"] = @ - 1]
    /\ currentPosition' = position
    /\ IF P_shouldSyncTarget(updateTargetInterval, position, targetPosition)
       THEN /\ targetPosition' = position
            /\ positionState' = calculateCurrentPositionState(position, position)
       ELSE UNCHANGED <<targetPosition, positionState>>
    /\ targetSeen' = (targetSeen \/ position = targetPosition')
    /\ UNCHANGED requested
    /\ event' = Event("resolved", "tgtGet", 0, position)
    /\ callback' = Callback("handleTargetPositionGet", targetPosition')
    /\ UNCHANGED <<platformVars, constructed, updateTargetInterval, intervalDurationSum,
                   updateTargetPositionTimeout, timers, nextTimerId, timerReads, cmds, capLogs>>

\* mutant: the getter answers with the last position read
D_targetPositionGetValue_Current == currentPosition

\* the value handleTargetPositionGet of the deferred variant hands to its callback
D_targetPositionGetValue == targetPosition

\* deferred variant, handleTargetPositionGet(callback): answers from memory
D_handleTargetPositionGet ==
    /\ constructed
    /\ variant = "deferred"
    /\ event' = Event("handleTargetPositionGet", "", 0, 0)
    /\ callback' = Callback("handleTargetPositionGet", D_targetPositionGetValue)
    /\ UNCHANGED <<platformVars, constructed, reads>>
    /\ UNCHANGED shutterVars

\* handlePositionStateGet(callback): issues getShutterPosition
handlePositionStateGet ==
    /\ constructed
    /\ Inflight < MaxInflight
    /\ reads' = [reads EXCEPT !["stateGet"] = @ + 1]
    /\ event' = Event("handlePositionStateGet", "", 0, 0)
    /\ callback' = NoCallback
    /\ UNCHANGED <<platformVars, constructed>>
    /\ UNCHANGED shutterVars

\* mutant: the state getter resynchronises the target like the position getters
positionStateGetResolved_target_Synced(position) == position

\* targetPosition after the .then of handlePositionStateGet: not assigned
positionStateGetResolved_target(position) == targetPosition

\* the .then of handlePositionStateGet (the same in both variants)
positionStateGetResolved(position) ==
    /\ reads["stateGet"] > 0
    /\ reads' = [reads EXCEPT !["stateGet"] = @ - 1]
    /\ currentPosition' = position
    /\ targetPosition' = positionStateGetResolved_target(position)
    /\ targetSeen' = (targetSeen \/ position = targetPosition')
    /\ UNCHANGED requested
    /\ event' = Event("resolved", "stateGet", 0, position)
    /\ callback' = Callback("handlePositionStateGet",
                            PositionStateOf(variant, position, targetPosition'))
    /\ UNCHANGED <<platformVars, constructed, updateTargetInterval,
                   intervalDurationSum, updateTargetPositionTimeout, timers, nextTimerId,
                   timerReads, cmds, positionState, capLogs>>

\* the .then of the constructor's seed read (the same in both variants)
constructorReadResolved(position) ==
    /\ reads["ctor"] > 0
    /\ reads' = [reads EXCEPT !["ctor"] = @ - 1]
    /\ currentPosition' = position
    /\ targetPosition' = position
    /\ targetSeen' = (targetSeen \/ position = targetPosition')
    /\ UNCHANGED requested
    /\ event' = Event("resolved", "ctor", 0, position)
    /\ callback' = NoCallback
    /\ UNCHANGED <<platformVars, constructed, updateTargetInterval, intervalDurationSum,
                   updateTargetPositionTimeout, timers, nextTimerId, timerReads, cmds,
                   positionState, capLogs>>

\* a getShutterPosition issued by a handler or the constructor rejects: its
\* .then(onFulfilled) is skipped, so the handler's callback is never invoked
readRejected(o) ==
    /\ reads[o] > 0
    /\ reads' = [reads EXCEPT ![o] = @ - 1]
    /\ event' = Rejected(o, 0)
    /\ callback' = NoCallback
    /\ UNCHANGED <<platformVars, constructed>>
    /\ UNCHANGED shutterVars

\* mutant: the acknowledgment waits for the command instead of being given at once
handleTargetPositionSet_callback_Awaited == NoCallback

\* callback(null), the last statement of handleTargetPositionSet in both variants
handleTargetPositionSet_callback == Callback("handleTargetPositionSet", 0)

\* --------------------------------------------------- shutter: polling variant
\* handleTargetPositionSet(value, callback) of the polling variant: record the
\* target, post the command without awaiting it, reset the accumulated time,
\* clearIntervalSafe(), setInterval(...), callback(null)
P_handleTargetPositionSet(value) ==
    /\ constructed
    /\ variant = "polling"
    /\ nextTimerId <= MaxTimers
    /\ Inflight < MaxInflight
    /\ targetPosition' = value
    /\ requested' = value
    /\ cmds' = cmds + 1
    /\ intervalDurationSum' = 0
    /\ timers' = clearIntervalSafe_timers(updateTargetInterval, timers) \cup {nextTimerId}
    /\ updateTargetInterval' = nextTimerId
    /\ nextTimerId' = nextTimerId + 1
    /\ capLogs' = 0
    /\ targetSeen' = FALSE
    /\ event' = Event("handleTargetPositionSet", "", nextTimerId, value)
    /\ callback' = handleTargetPositionSet_callback
    /\ UNCHANGED <<platformVars, constructed, reads, currentPosition,
                   updateTargetPositionTimeout, timerReads, positionState>>

\* the setInterval callback of timer t runs: it issues getShutterPosition
P_intervalTick(t) ==
    /\ variant = "polling"
    /\ t \in timers
    /\ Inflight < MaxInflight
    /\ timerReads' = [timerReads EXCEPT ![t] = @ + 1]
    /\ UNCHANGED targetSeen
    /\ UNCHANGED requested
    /\ event' = Event("tick", "", t, 0)
    /\ callback' = NoCallback
    /\ UNCHANGED <<platformVars, constructed, reads, currentPosition, targetPosition,
                   updateTargetInterval, intervalDurationSum, updateTargetPositionTimeout,
                   timers, nextTimerId, cmds, positionState, capLogs>>

\* mutant: the cap is reached only once the sum has passed it
MaxPollingTimeReached_Strict(sum) == sum > maxPollingTime

\* if (this.intervalDurationSum >= this.platform.maxPollingTime)
MaxPollingTimeReached(sum) == sum >= maxPollingTime

\* mutant: the comparison is >= in place of ===
TargetReached_AtLeast(cur, tgt) == cur >= tgt

\* if (this.state.currentPosition === this.state.targetPosition)
TargetReached(cur, tgt) == cur = tgt

\* the .then inside the setInterval callback of timer t: no check that t is
\* still the timer this.updateTargetInterval refers to
P_intervalReadResolved(t, position) ==
    /\ variant = "polling"
    /\ timerReads[t] > 0
    /\ timerReads' = [timerReads EXCEPT ![t] = @ - 1]
    /\ intervalDurationSum' = intervalDurationSum + pollingInterval
    /\ currentPosition' = position
    /\ positionState' = calculateCurrentPositionState(position, targetPosition)
    /\ capLogs' = IF MaxPollingTimeReached(intervalDurationSum') THEN capLogs + 1 ELSE capLogs
    /\ IF MaxPollingTimeReached(intervalDurationSum') \/ TargetReached(position, targetPosition)
       THEN /\ timers' = clearIntervalSafe_timers(updateTargetInterval, timers)
            /\ updateTargetInterval' = clearIntervalSafe_handle(updateTargetInterval)
       ELSE UNCHANGED <<timers, updateTargetInterval>>
    /\ targetSeen' = (targetSeen \/ position = targetPosition)
    /\ UNCHANGED requested
    /\ event' = Event("resolved", "timer", t, position)
    /\ callback' = NoCallback
    /\ UNCHANGED <<platformVars, constructed, reads, targetPosition,
                   updateTargetPositionTimeout, nextTimerId, cmds>>

\* mutant: the failed read is issued again at once
timerReadRejected_reads_Retried(t) == timerReads

\* the reads of timer t in flight after one of them rejects: the failed one
\* is gone and the callback issues no other
timerReadRejected_reads(t) == [timerReads EXCEPT ![t] = @ - 1]

\* a getShutterPosition issued by a timer callback rejects: the .then is skipped
timerReadRejected(t) ==
    /\ timerReads[t] > 0
    /\ timerReads' = timerReadRejected_reads(t)
    /\ UNCHANGED targetSeen
    /\ UNCHANGED requested
    /\ event' = Rejected("timer", t)
    /\ callback' = NoCallback
    /\ UNCHANGED <<platformVars, constructed, reads, currentPosition, targetPosition,
                   updateTargetInterval, intervalDurationSum, updateTargetPositionTimeout,
                   timers, nextTimerId, cmds, positionState, capLogs>>

\* mutant: the set leaves the pending deferred check scheduled
clearTimeout_timers_NoClear(handle, live) == live

\* -------------------------------------------------- shutter: deferred variant
\* if (this.updateTargetPositionTimeout) clearTimeout(...): the runtime's timers
\* afterwards (clearTimeout of a timer that has fired does nothing)
clearTimeout_timers(handle, live) ==
    IF handle # NULL THEN live \ {handle} ELSE live

\* handleTargetPositionSet(value, callback) of the deferred variant
D_handleTargetPositionSet(value) ==
    /\ constructed
    /\ variant = "deferred"
    /\ nextTimerId <= MaxTimers
    /\ Inflight < MaxInflight
    /\ targetPosition' = value
    /\ requested' = value
    /\ cmds' = cmds + 1
    /\ timers' = clearTimeout_timers(updateTargetPositionTimeout, timers) \cup {nextTimerId}
    /\ updateTargetPositionTimeout' = nextTimerId
    /\ nextTimerId' = nextTimerId + 1
    /\ UNCHANGED targetSeen
    /\ event' = Event("handleTargetPositionSet", "", nextTimerId, value)
    /\ callback' = handleTargetPositionSet_callback
    /\ UNCHANGED <<platformVars, constructed, reads, currentPosition, updateTargetInterval,
                   intervalDurationSum, timerReads, positionState, capLogs>>

\* the setTimeout callback of timer t runs, once: it issues getShutterPosition
D_timeoutFire(t) ==
    /\ variant = "deferred"
    /\ t \in timers
    /\ Inflight < MaxInflight
    /\ timers' = timers \ {t}
    /\ timerReads' = [timerReads EXCEPT ![t] = @ + 1]
    /\ UNCHANGED targetSeen
    /\ UNCHANGED requested
    /\ event' = Event("timeout", "", t, 0)
    /\ callback' = NoCallback
    /\ UNCHANGED <<platformVars, constructed, reads, currentPosition, targetPosition,
                   updateTargetInterval, intervalDurationSum, updateTargetPositionTimeout,
                   nextTimerId, cmds, positionState, capLogs>>

\* the .then inside the setTimeout callback of timer t
D_timeoutReadResolved(t, position) ==
    /\ variant = "deferred"
    /\ timerReads[t] > 0
    /\ timerReads' = [timerReads EXCEPT ![t] = @ - 1]
    /\ currentPosition' = position
    /\ targetPosition' = position
    /\ positionState' = D_calculateCurrentPositionState(position, position)
    /\ UNCHANGED targetSeen
    /\ UNCHANGED requested
    /\ event' = Event("resolved", "timer", t, position)
    /\ callback' = NoCallback
    /\ UNCHANGED <<platformVars, constructed, reads, updateTargetInterval,
                   intervalDurationSum, updateTargetPositionTimeout, timers, nextTimerId,
                   cmds, capLogs>>

\* ------------------------------------------------------- the position command
\* postShutterAction resolves: it logs the response status, nothing else
postShutterActionResolved ==
    /\ cmds > 0
    /\ cmds' = cmds - 1
    /\ UNCHANGED targetSeen
    /\ UNCHANGED requested
    /\ event' = Event("resolved", "postShutterAction", 0, 0)
    /\ callback' = NoCallback
    /\ UNCHANGED <<platformVars, constructed, reads, currentPosition, targetPosition,
                   updateTargetInterval, intervalDurationSum, updateTargetPositionTimeout,
                   timers, nextTimerId, timerReads, positionState, capLogs>>

\* postShutterAction rejects: the await throws, nobody holds the promise
postShutterActionRejected ==
    /\ cmds > 0
    /\ cmds' = cmds - 1
    /\ UNCHANGED targetSeen
    /\ UNCHANGED requested
    /\ event' = Rejected("postShutterAction", 0)
    /\ callback' = NoCallback
    /\ UNCHANGED <<platformVars, constructed, reads, currentPosition, targetPosition,
                   updateTargetInterval, intervalDurationSum, updateTargetPositionTimeout,
                   timers, nextTimerId, timerReads, positionState, capLogs>>

\* ------------------------------------------------------------ specification
\* one shutter, from its construction on
Next ==
    \/ handleCurrentPositionGet
    \/ \E p \in Positions : P_currentPositionGetResolved(p)
    \/ \E p \in Positions : D_currentPositionGetResolved(p)
    \/ P_handleTargetPositionGet
    \/ \E p \in Positions : P_targetPositionGetResolved(p)
    \/ D_handleTargetPositionGet
    \/ handlePositionStateGet
    \/ \E p \in Positions : positionStateGetResolved(p)
    \/ \E p \in Positions : constructorReadResolved(p)
    \/ \E o \in ReadOrigins : readRejected(o)
    \/ \E v \in Positions : P_handleTargetPositionSet(v)
    \/ \E t \in TimerIds : P_intervalTick(t)
    \/ \E t \in TimerIds, p \in Positions : P_intervalReadResolved(t, p)
    \/ \E t \in TimerIds : timerReadRejected(t)
    \/ \E v \in Positions : D_handleTargetPositionSet(v)
    \/ \E t \in TimerIds : D_timeoutFire(t)
    \/ \E t \in TimerIds, p \in Positions : D_timeoutReadResolved(t, p)
    \/ postShutterActionResolved
    \/ postShutterActionRejected

Spec == Init /\ [][Next]_vars

\* The polling variant alone, with the scheduling Node and the hub provide:
\* a live interval timer keeps firing, and every hub call in flight is settled,
\* one way or the other.
PollingInit ==
    /\ Init
    /\ variant = "polling"
    /\ pollingInterval = PollingIntervalOf(20)

PollingNext ==
    \/ handleCurrentPositionGet
    \/ \E p \in Positions : P_currentPositionGetResolved(p)
    \/ P_handleTargetPositionGet
    \/ \E p \in Positions : P_targetPositionGetResolved(p)
    \/ handlePositionStateGet
    \/ \E p \in Positions : positionStateGetResolved(p)
    \/ \E p \in Positions : constructorReadResolved(p)
    \/ \E o \in ReadOrigins : readRejected(o)
    \/ \E v \in Positions : P_handleTargetPositionSet(v)
    \/ \E t \in TimerIds : P_intervalTick(t)
    \/ \E t \in TimerIds, p \in Positions : P_intervalReadResolved(t, p)
    \/ \E t \in TimerIds : timerReadRejected(t)
    \/ postShutterActionResolved
    \/ postShutterActionRejected

PollingFairness ==
    /\ \A t \in TimerIds : WF_vars(P_intervalTick(t))
    /\ \A t \in TimerIds :
          WF_vars((\E p \in Positions : P_intervalReadResolved(t, p)) \/ timerReadRejected(t))
    /\ WF_vars((\E p \in Positions : P_currentPositionGetResolved(p)) \/ readRejected("curGet"))
    /\ WF_vars((\E p \in Positions : P_targetPositionGetResolved(p)) \/ readRejected("tgtGet"))
    /\ WF_vars((\E p \in Positions : positionStateGetResolved(p)) \/ readRejected("stateGet"))
    /\ WF_vars((\E p \in Positions : constructorReadResolved(p)) \/ readRejected("ctor"))
    /\ WF_vars(postShutterActionResolved \/ postShutterActionRejected)

PollingFairSpec == PollingInit /\ [][PollingNext]_vars /\ PollingFairness

\* the platform from launch to the construction of the shutter, with the
\* re-authentication interval and the shutter's position reads
PlatformNext ==
    \/ didFinishLaunching
    \/ authenticationIntervalTick
    \/ \E o \in AuthOrigins, c \in Cookies : authenticateResolved(o, c)
    \/ \E o \in AuthOrigins : authenticateRejected(o)
    \/ \E hasShutter \in BOOLEAN : discoverDevicesResolved(hasShutter)
    \/ discoverDevicesRejected
    \/ handleCurrentPositionGet
    \/ \E p \in Positions : P_currentPositionGetResolved(p)
    \/ \E p \in Positions : D_currentPositionGetResolved(p)
    \/ \E p \in Positions : constructorReadResolved(p)
    \/ \E o \in ReadOrigins : readRejected(o)

PlatformSpec == PlatformInit /\ [][PlatformNext]_vars

\* ------------------------------------------------- the derivation, tabulated
\* every pair of percentages as the tracker's state
DeriveInit ==
    /\ variant = "polling"
    /\ pollingInterval = PollingIntervalOf(0)
    /\ launched = TRUE
    /\ authenticationTimer = TRUE
    /\ sessionCookie = "c1"
    /\ auths = [o \in AuthOrigins |-> 0]
    /\ lists = 0
    /\ constructed = TRUE
    /\ currentPosition \in Percent
    /\ targetPosition \in Percent
    /\ updateTargetInterval = NULL
    /\ intervalDurationSum = 0
    /\ updateTargetPositionTimeout = NULL
    /\ timers = {}
    /\ nextTimerId = 1
    /\ reads = [o \in ReadOrigins |-> 0]
    /\ timerReads = [t \in TimerIds |-> 0]
    /\ cmds = 0
    /\ positionState = UNSET
    /\ capLogs = 0
    /\ targetSeen = FALSE
    /\ requested = 0
    /\ event = Event("constructor", "", 0, 0)
    /\ callback = NoCallback

\* the derivation of variant v applied to the tracker's state
Derive(v) ==
    /\ event' = Event("calculateCurrentPositionState", v, 0, 0)
    /\ callback' = Callback("calculateCurrentPositionState",
                            PositionStateOf(v, currentPosition, targetPosition))
    /\ UNCHANGED <<platformVars, constructed, reads>>
    /\ UNCHANGED shutterVars

DeriveNext == \E v \in DerivingVariants : Derive(v)

DeriveSpec == DeriveInit /\ [][DeriveNext]_vars

\* --------------------------------------- the tracker under unvalidated readings
\* Next with the hub free to report any of HubReadings
RangeNext ==
    \/ handleCurrentPositionGet
    \/ \E p \in HubReadings : P_currentPositionGetResolved(p)
    \/ \E p \in HubReadings : D_currentPositionGetResolved(p)
    \/ P_handleTargetPositionGet
    \/ \E p \in HubReadings : P_targetPositionGetResolved(p)
    \/ D_handleTargetPositionGet
    \/ handlePositionStateGet
    \/ \E p \in HubReadings : positionStateGetResolved(p)
    \/ \E p \in HubReadings : constructorReadResolved(p)
    \/ \E o \in ReadOrigins : readRejected(o)
    \/ \E v \in Positions : P_handleTargetPositionSet(v)
    \/ \E t \in TimerIds : P_intervalTick(t)
    \/ \E t \in TimerIds, p \in HubReadings : P_intervalReadResolved(t, p)
    \/ \E t \in TimerIds : timerReadRejected(t)
    \/ \E v \in Positions : D_handleTargetPositionSet(v)
    \/ \E t \in TimerIds : D_timeoutFire(t)
    \/ \E t \in TimerIds, p \in HubReadings : D_timeoutReadResolved(t, p)
    \/ postShutterActionResolved
    \/ postShutterActionRejected

RangeSpec == Init /\ [][RangeNext]_vars

\* ===================================================================== claims
\* the timer handle of the variant in use
Handle ==
    IF variant = "polling" THEN updateTargetInterval ELSE updateTargetPositionTimeout

\* C1: at most one polling/deferred-check timer is live per shutter in every
\* reachable state, and right after any handleTargetPositionSet exactly one is
\* live: the one that call created (an earlier one was cancelled first).
C1_AtMostOneLiveTimer ==
    /\ Cardinality(timers) <= 1
    /\ event.op = "handleTargetPositionSet" => timers = {event.timer} /\ Handle = event.timer

\* C1 witness: the polling variant right after a second handleTargetPositionSet
\* made while the first session was still polling (no poll read has resolved,
\* so nothing but the second call can have cancelled timer 1).
C1_Witness ==
    /\ variant = "polling"
    /\ event.op = "handleTargetPositionSet"
    /\ event.timer = 2
    /\ positionState = UNSET
    /\ timers = {2}

\* the step is the .then of a poll read of timer t, the session still being t's
PollReadOfLiveSession ==
    /\ variant = "polling"
    /\ event'.op = "resolved"
    /\ event'.of = "timer"
    /\ updateTargetInterval # NULL
    /\ event'.timer = updateTargetInterval

\* C2 as stated: a poll read of the live session that reports a position other
\* than the target leaves the session live (even with a later tick's read still
\* to report), and one that reports the target leaves it Idle with
\* currentPosition = targetPosition and MotionState Stopped.
C2_Original ==
    [][PollReadOfLiveSession =>
        /\ (event'.value # targetPosition /\ timerReads'[event'.timer] > 0) =>
               /\ updateTargetInterval' = updateTargetInterval
               /\ timers' = timers
        /\ event'.value = targetPosition =>
               /\ updateTargetInterval' = NULL
               /\ timers' = {}
               /\ currentPosition' = targetPosition'
               /\ positionState' = STOPPED]_vars

\* C2 amended: a poll read of the live session that reports a position other
\* than the target and leaves the accumulated time below maxPollingTime leaves
\* the session live; one that reports the target leaves it Idle (timer
\* cancelled, handle cleared) with currentPosition = targetPosition and the
\* published MotionState Stopped.
C2_SessionEndsAtTargetTick ==
    [][PollReadOfLiveSession =>
        /\ (event'.value # targetPosition /\ intervalDurationSum' < maxPollingTime) =>
               /\ updateTargetInterval' = updateTargetInterval
               /\ timers' = timers
               /\ updateTargetInterval' \in timers'
        /\ event'.value = targetPosition =>
               /\ updateTargetInterval' = NULL
               /\ timers' = {}
               /\ currentPosition' = targetPosition'
               /\ targetPosition' = targetPosition
               /\ positionState' = STOPPED]_vars

\* C2 witness: the session has just ended on a poll read that reported the
\* target, after earlier poll reads of the same session that did not
\* (accumulated time of at least two ticks, below the cap).
C2_Witness ==
    /\ variant = "polling"
    /\ event.op = "resolved"
    /\ event.of = "timer"
    /\ event.value = targetPosition
    /\ event.timer = 1
    /\ nextTimerId = 2
    /\ intervalDurationSum >= 2 * pollingInterval
    /\ intervalDurationSum < maxPollingTime
    /\ updateTargetInterval = NULL
    /\ timers = {}
    /\ positionState = STOPPED

\* C3 as stated: in a session in which the hub has not reported the target
\* position, the cap-reached line is logged at most once, and once it is
\* logged the session is Idle.
C3_CapLoggedOnce ==
    ~targetSeen =>
        /\ capLogs <= 1
        /\ capLogs = 1 => updateTargetInterval = NULL /\ timers = {}

\* C4 as stated: every polling session eventually returns to Idle: a timer that
\* is live is eventually cancelled.
C4_SessionEventuallyIdle ==
    \A t \in TimerIds : (t \in timers) ~> (t \notin timers)

\* C5 as stated: the .then of a poll read issued by a timer that a newer
\* handleTargetPositionSet has cancelled leaves the new session's accumulated
\* time alone and does not end the new session.
C5_StaleReadHasNoEffect ==
    [][(/\ variant = "polling"
        /\ event'.op = "resolved"
        /\ event'.of = "timer"
        /\ updateTargetInterval # NULL
        /\ event'.timer < updateTargetInterval) =>
            /\ intervalDurationSum' = intervalDurationSum
            /\ updateTargetInterval' = updateTargetInterval
            /\ timers' = timers]_vars

\* C6: deferred variant: a handleTargetPositionGet that immediately follows
\* handleTargetPositionSet(v) hands exactly v to its callback, in that same
\* step, and issues no hub read.
C6_GetAfterSetReturnsValue ==
    [][(/\ variant = "deferred"
        /\ event.op = "handleTargetPositionSet"
        /\ event'.op = "handleTargetPositionGet") =>
            /\ callback' = Callback("handleTargetPositionGet", event.value)
            /\ reads' = reads
            /\ timerReads' = timerReads]_vars

\* C6 witness: the getter has answered v while the command and the deferred
\* check of the set are still outstanding and the last read position is not v.
C6_Witness ==
    /\ variant = "deferred"
    /\ event.op = "handleTargetPositionGet"
    /\ callback = Callback("handleTargetPositionGet", 70)
    /\ currentPosition # 70
    /\ cmds > 0
    /\ updateTargetPositionTimeout \in timers

\* C7: handleTargetPositionSet acknowledges in the step in which it is invoked:
\* at the end of that step the success callback has fired, the position
\* command it posted is still in flight, and the timer it created is live with
\* none of its reads issued.
C7_SetAcknowledgesAtOnce ==
    [][event'.op = "handleTargetPositionSet" =>
        /\ callback' = Callback("handleTargetPositionSet", 0)
        /\ cmds' = cmds + 1
        /\ event'.timer \in timers'
        /\ timerReads'[event'.timer] = 0]_vars

\* C7 witness: a set has just been acknowledged with its command in flight
C7_Witness ==
    /\ event.op = "handleTargetPositionSet"
    /\ callback = Callback("handleTargetPositionSet", 0)
    /\ cmds > 0
    /\ timerReads[event.timer] = 0

\* C8 as stated: when the position command fails, the setter's caller sees no
\* error, targetPosition and the session are left alone, and the failure is
\* caught and logged.
C8_CommandFailureOnlyLogged ==
    [][(event'.of = "postShutterAction" /\ event'.op # "resolved") =>
        /\ callback'.err = FALSE
        /\ targetPosition' = targetPosition
        /\ timers' = timers
        /\ event'.op = "loggedRejection"]_vars

\* C9 as stated: no rejection of a hub operation is left without a handler.
C9_NoUnhandledRejection == event.op # "unhandledRejection"

\* C10 as stated: when the hub read of handleCurrentPositionGet,
\* handleTargetPositionGet (polling variant) or handlePositionStateGet fails,
\* the handler's callback is invoked with an error.
C10_ReadFailureReachesCaller ==
    (event.of \in {"curGet", "tgtGet", "stateGet"} /\ event.op # "resolved") =>
        callback.op # "none" /\ callback.err = TRUE


\* C11: a failed authenticate, scheduled or initial, leaves the stored session
\* cookie as the last successful authenticate set it and touches no position
\* read: the reads in flight stay in flight, each still able to complete, and
\* the tracker's positions are as they were.
C11_FailedAuthenticateLeavesReads ==
    /\ [][(event'.op = "unhandledRejection" /\ event'.of = "authenticate")
            => /\ sessionCookie' = sessionCookie
               /\ reads' = reads
               /\ currentPosition' = currentPosition
               /\ targetPosition' = targetPosition]_vars
    /\ [](reads["curGet"] > 0
            => ENABLED (\E p \in Positions : \/ P_currentPositionGetResolved(p)
                                             \/ D_currentPositionGetResolved(p)))

\* a scheduled authenticate has just failed while a getCurrentPosition read
\* is in flight, and the cookie of the successful launch is still stored
C11_Witness ==
    /\ event = Rejected("authenticate", 0)
    /\ constructed
    /\ reads["curGet"] > 0
    /\ sessionCookie \in Cookies

\* C12: in the polling variant, a getMotionState whose read resolves after
\* a setTargetPosition(v) and before any poll read of the session has
\* resolved answers with the state derived from the reading p and v:
\* Increasing if p < v, Decreasing if p > v, Stopped if p = v.
C12_MotionStateAfterSet ==
    [][(/\ variant = "polling"
        /\ event'.op = "resolved" /\ event'.of = "stateGet"
        /\ requested # 0
        /\ updateTargetInterval \in timers
        /\ intervalDurationSum = 0)
         => /\ (event'.value < requested => callback'.value = INCREASING)
            /\ (event'.value > requested => callback'.value = DECREASING)
            /\ (event'.value = requested => callback'.value = STOPPED)]_vars

\* C13: for every pair of percentages held as currentPosition and
\* targetPosition, a derivation that has just run answered Increasing exactly
\* when current < target, Decreasing exactly when current > target and
\* Stopped exactly when they are equal, and the three variants' derivations
\* give the same answer on the pair.
C13_DerivationTable ==
    /\ event.op = "calculateCurrentPositionState"
         => /\ (callback.value = INCREASING <=> currentPosition < targetPosition)
            /\ (callback.value = DECREASING <=> currentPosition > targetPosition)
            /\ (callback.value = STOPPED <=> currentPosition = targetPosition)
    /\ calculateCurrentPositionState(currentPosition, targetPosition)
         = D_calculateCurrentPositionState(currentPosition, targetPosition)
    /\ D_calculateCurrentPositionState(currentPosition, targetPosition)
         = S_positionState(currentPosition, targetPosition)

\* the simple variant's inline derivation has answered Increasing for a
\* shutter below its target
C13_Witness ==
    /\ event = Event("calculateCurrentPositionState", "simple", 0, 0)
    /\ currentPosition < targetPosition
    /\ callback.value = INCREASING

\* C14: in every reachable state currentPosition and targetPosition are
\* both percentages, values of 0..100.
C14_PositionsArePercentages ==
    /\ currentPosition \in Percent
    /\ targetPosition \in Percent

\* C15: in the polling variant, when the read of a getCurrentPosition or a
\* getTargetPosition resolves while no polling session is active and the
\* reading differs from targetPosition, targetPosition becomes the reading,
\* so that current and target both equal it and Stopped is derived and
\* published; when a session is active as the read resolves, targetPosition
\* is left as it was.
C15_SyncOnlyWhenIdle ==
    [][(/\ variant = "polling"
        /\ event'.op = "resolved"
        /\ event'.of \in {"curGet", "tgtGet"})
         => IF updateTargetInterval = NULL /\ event'.value # targetPosition
            THEN /\ targetPosition' = event'.value
                 /\ currentPosition' = event'.value
                 /\ calculateCurrentPositionState(currentPosition', targetPosition') = STOPPED
                 /\ positionState' = STOPPED
            ELSE targetPosition' = targetPosition]_vars

\* before any set, an idle tracker has just taken a reading as its target
C15_Witness ==
    /\ variant = "polling"
    /\ event.op = "resolved" /\ event.of \in {"curGet", "tgtGet"}
    /\ nextTimerId = 1
    /\ updateTargetInterval = NULL
    /\ reads["ctor"] > 0
    /\ targetPosition = event.value /\ currentPosition = event.value
    /\ targetPosition # 0
    /\ positionState = STOPPED

\* C16: in the deferred variant the only deferred check that ever fires is
\* the one of the newest set: a set cancels the check pending before it, so a
\* cancelled check issues no read, and a check fires once, issuing exactly
\* one hub read; when that read resolves, currentPosition and targetPosition
\* both equal the reading and Stopped is published as the motion state.
C16_OneDeferredCheckPerSet ==
    [][variant = "deferred"
         => /\ (event'.op = "handleTargetPositionSet"
                  => /\ timers' = {event'.timer}
                     /\ event'.timer = nextTimerId
                     /\ timerReads' = timerReads)
            /\ (event'.op = "timeout"
                  => /\ event'.timer = updateTargetPositionTimeout
                     /\ event'.timer \in timers
                     /\ event'.timer \notin timers'
                     /\ timerReads[event'.timer] = 0
                     /\ timerReads' = [timerReads EXCEPT ![event'.timer] = 1])
            /\ (event'.op # "handleTargetPositionSet" => timers' \subseteq timers)
            /\ ((event'.op = "resolved" /\ event'.of = "timer")
                  => /\ currentPosition' = event'.value
                     /\ targetPosition' = event'.value
                     /\ positionState' = STOPPED)]_vars

\* after two sets, the check of the newer one has fired and its read has
\* resolved
C16_Witness ==
    /\ variant = "deferred"
    /\ event.op = "resolved" /\ event.of = "timer"
    /\ event.timer = updateTargetPositionTimeout
    /\ event.timer > 1
    /\ currentPosition = event.value /\ targetPosition = event.value
    /\ positionState = STOPPED

\* what getMotionState must leave alone: the target, both timer handles, the
\* runtime's timers and the accumulated elapsed time
C17_Frame == <<targetPosition, updateTargetInterval, updateTargetPositionTimeout, timers,
               intervalDurationSum>>

\* C17: getMotionState changes nothing but currentPosition.  Issuing its read
\* changes no tracker field; when the read resolves, currentPosition becomes
\* the reading while targetPosition, the timer handle and the accumulated
\* elapsed time stay as they were, and the state handed back is the one
\* derived from the reading and that unchanged targetPosition; when the read
\* fails, no field changes.
C17_MotionStateGetFrame ==
    [][/\ (event'.op = "handlePositionStateGet"
             => UNCHANGED <<C17_Frame, currentPosition>>)
       /\ ((event'.op = "unhandledRejection" /\ event'.of = "stateGet")
             => UNCHANGED <<C17_Frame, currentPosition>>)
       /\ ((event'.op = "resolved" /\ event'.of = "stateGet")
             => /\ UNCHANGED C17_Frame
                /\ currentPosition' = event'.value
                /\ callback'.op = "handlePositionStateGet"
                /\ (event'.value < targetPosition => callback'.value = INCREASING)
                /\ (event'.value > targetPosition => callback'.value = DECREASING)
                /\ (event'.value = targetPosition => callback'.value = STOPPED))]_vars

\* while a timer is pending, a getMotionState read has resolved with a
\* reading off the target, moving currentPosition and leaving the target
C17_Witness ==
    /\ event.op = "resolved" /\ event.of = "stateGet"
    /\ Handle \in timers
    /\ currentPosition = event.value
    /\ targetPosition # event.value
    /\ callback.value # STOPPED

\* C18: in the polling variant, a poll read that fails changes no tracker
\* state (currentPosition, targetPosition, accumulated elapsed time, timer
\* handle) and is not issued again by the failure: the interval stays as it
\* was, and every tick of it, after a failure as before, issues one new read.
C18_FailedPollReadChangesNothing ==
    [][variant = "polling"
         => /\ ((event'.op = "unhandledRejection" /\ event'.of = "timer")
                  => /\ UNCHANGED <<currentPosition, targetPosition, intervalDurationSum,
                                    updateTargetInterval, timers>>
                     /\ timerReads' = [timerReads EXCEPT ![event'.timer] = @ - 1])
            /\ (event'.op = "tick"
                  => /\ event'.timer \in timers'
                     /\ timerReads' = [timerReads EXCEPT ![event'.timer] = @ + 1])]_vars

\* a poll read of the live session has just failed: the session is still
\* live, nothing has been counted and no read of it is in flight
C18_Witness ==
    /\ variant = "polling"
    /\ event.op = "unhandledRejection" /\ event.of = "timer"
    /\ event.timer = updateTargetInterval
    /\ updateTargetInterval \in timers
    /\ intervalDurationSum = 0
    /\ timerReads[event.timer] = 0

\* C19: authenticate is attempted once at startup, by didFinishLaunching and
\* by nothing else, and once by every tick of the re-authentication interval;
\* the interval, once created at startup, is never cleared, by a failed
\* attempt no more than by anything else, so that a tick is due again
\* whenever the previous scheduled attempt has settled.
C19_AuthenticateKeepsBeingAttempted ==
    /\ [][/\ (event'.op = "didFinishLaunching"
                => /\ auths'["launch"] = 1
                   /\ auths'["interval"] = 0
                   /\ authenticationTimer')
          /\ (auths'["launch"] > auths["launch"] => event'.op = "didFinishLaunching")
          /\ (event'.op = "authenticationInterval"
                => auths' = [auths EXCEPT !["interval"] = @ + 1])
          /\ (auths'["interval"] > auths["interval"] => event'.op = "authenticationInterval")
          /\ (authenticationTimer => authenticationTimer')]_vars
    /\ []((launched /\ auths["interval"] < MaxAuths) => ENABLED authenticationIntervalTick)

\* no attempt has succeeded yet, the startup attempt has failed, and the
\* interval has just made a scheduled attempt all the same
C19_Witness ==
    /\ event.op = "authenticationInterval"
    /\ launched
    /\ auths["launch"] = 0
    /\ sessionCookie = ""
    /\ auths["interval"] = 1

\* C20: in the polling variant, while a polling session is active
\* targetPosition is the value the most recent setTargetPosition passed: no
\* hub read resolving during the session, the constructor's seed read
\* included, writes another value over it.
C20_TargetKeptWhileSessionActive ==
    (variant = "polling" /\ updateTargetInterval # NULL) => targetPosition = requested

\* the deferred check scheduled by the most recent set has not completed:
\* its timer is pending, or it has fired and its read is in flight
OwnCheckPending ==
    /\ updateTargetPositionTimeout # NULL
    /\ \/ updateTargetPositionTimeout \in timers
       \/ timerReads[updateTargetPositionTimeout] > 0

\* C21: in the deferred variant, after setTargetPosition(v) targetPosition
\* stays v until the deferred check scheduled by that same call completes:
\* while that check is pending the target is the requested value, and the
\* read of an earlier set's check, resolving after a later set, leaves
\* targetPosition as the later set recorded it.
C21_StaleCheckKeepsLaterTarget ==
    /\ []((variant = "deferred" /\ OwnCheckPending) => targetPosition = requested)
    /\ [][(/\ variant = "deferred"
           /\ event'.op = "resolved" /\ event'.of = "timer"
           /\ event'.timer # updateTargetPositionTimeout)
            => targetPosition' = targetPosition]_vars

\* C22: in the polling variant, whenever a polling timer is live, through
\* the handle or in the runtime, the accumulated elapsed time is strictly
\* below maxPollingTime: after every set, and after every poll read that has
\* resolved, reads left over from a cancelled session included.
C22_LiveTimerBelowCap ==
    (variant = "polling" /\ (updateTargetInterval # NULL \/ timers # {}))
        => intervalDurationSum < maxPollingTime

\* a read left over from a cancelled session has just resolved and been
\* counted, short of the cap, while the session that replaced it is live
C22_Witness ==
    /\ variant = "polling"
    /\ event.op = "resolved" /\ event.of = "timer"
    /\ event.timer # updateTargetInterval
    /\ updateTargetInterval \in timers
    /\ intervalDurationSum > 0

\* C23: device discovery is started only by the initial authenticate
\* resolving: never before it settles, never by its failure, never by a
\* scheduled authenticate; the initial authenticate is made once, so
\* discovery starts at most once, and a tracker is constructed only by a
\* discovery's device list arriving.
C23_DiscoveryAfterInitialAuthenticate ==
    /\ [][/\ (lists' > lists
                => /\ event' = Event("resolved", "authenticate", 0, 0)
                   /\ auths["launch"] = 1 /\ auths'["launch"] = 0
                   /\ sessionCookie' \in Cookies
                   /\ lists = 0 /\ lists' = 1
                   /\ ~constructed)
          /\ (auths'["launch"] > auths["launch"] => ~launched /\ launched')
          /\ (constructed' # constructed => lists' < lists)]_vars
    /\ [](auths["launch"] + lists <= 1)
    /\ []((auths["launch"] > 0 \/ ~launched) => (lists = 0 /\ ~constructed))

\* the initial authenticate has just resolved and discovery has started
\* while a scheduled authenticate is in flight
C23_Witness ==
    /\ event = Event("resolved", "authenticate", 0, 0)
    /\ lists = 1
    /\ auths["launch"] = 0
    /\ auths["interval"] > 0
    /\ sessionCookie \in Cookies
    /\ ~constructed

============================================================================
